---- MODULE Spec2Model ----
(***************************************************************************)
(* Model of scripts/update_manifest.py: the release-manifest updater.      *)
(*                                                                         *)
(* Representation.                                                         *)
(*  - A filename or platform key is a sequence of one-character strings,   *)
(*    so that the regular expression and the endswith tests are computed   *)
(*    character by character.                                              *)
(*  - A Python dict is the sequence of its <<key, value>> items in         *)
(*    insertion order (dicts keep insertion order, and json.dump writes    *)
(*    the items in that order).                                            *)
(*  - A JSON object text is the sequence of its members as written, which  *)
(*    may repeat a name; json.load folds it into a dict.                   *)
(*  - The assets argument is represented by its JSON syntax: not JSON at   *)
(*    all, an array of objects, or a value that is no array.               *)
(*  - A file's bytes are an opaque content name; SHA-256 is an injective   *)
(*    map from contents to non-empty digests.                              *)
(***************************************************************************)
EXTENDS Integers, Sequences, FiniteSets, TLC

\* Longest assets array explored.
MaxAssets == 2

VARIABLES
    argc,             \* len(sys.argv): the script name plus the arguments
    assets_json_str,  \* sys.argv[2], by its JSON syntax
    file,             \* the manifest file at sys.argv[1]
    fs,               \* the artifacts directory: filename -> what is there
    pc,               \* position of main
    run,              \* 1: first invocation, 2: the same invocation repeated
    assets,           \* local of main
    manifest,         \* local of main
    i,                \* 1-based index of the asset the loop is at
    filename,         \* local of main / argument of get_platform_key
    key,              \* local of main / result of get_platform_key
    count,            \* local of main
    stdout,           \* the lines printed, by kind
    summary,          \* the number printed in the final line, -1 before
    exitCode,         \* the process exit status, -1 while running
    exc,              \* the uncaught exception that ended the run, "" if none
    reads,            \* times the manifest file was opened for reading
    writes,           \* times the manifest file was opened for writing
    file0,            \* history: the manifest file when this run started
    loaded,           \* history: what json.load returned
    setBy             \* history: per processed asset, the key it upserted

vars == <<argc, assets_json_str, file, fs, pc, run, assets, manifest, i,
          filename, key, count, stdout, summary, exitCode, exc, reads,
          writes, file0, loaded, setBy>>

----------------------------------------------------------------------------
(* Characters and literals *)

LowerAlnum ==
    {"a","b","c","d","e","f","g","h","i","j","k","l","m","n","o","p","q",
     "r","s","t","u","v","w","x","y","z","0","1","2","3","4","5","6","7",
     "8","9"}

Btxz == <<"b","t","x","z","-">>
DotExe == <<".","e","x","e">>
DotTxt == <<".","t","x","t">>
DotSh == <<".","s","h">>
DotPs1 == <<".","p","s","1">>
VersionJson == <<"v","e","r","s","i","o","n",".","j","s","o","n">>

\* Python's None as returned by get_platform_key; like "", it is falsy.
None == <<>>

\* str.endswith
EndsWith(s, suf) ==
    /\ Len(s) >= Len(suf)
    /\ SubSeq(s, Len(s) - Len(suf) + 1, Len(s)) = suf

\* the literal lit occurs in s at position p
StartsAt(s, p, lit) ==
    /\ p + Len(lit) - 1 <= Len(s)
    /\ SubSeq(s, p, p + Len(lit) - 1) = lit

----------------------------------------------------------------------------
(* get_platform_key: re.match of                                           *)
(*   btxz-([a-z0-9]+-[a-z0-9]+-[a-z0-9]+)(?:\.exe)?$                       *)
(* re.match anchors at the start. A token's characters exclude "-", "."    *)
(* and newline, so only the longest run can be followed by the rest of the *)
(* pattern and backtracking into a token never yields a match. "$" without *)
(* re.MULTILINE matches at the end of the string and also just before a    *)
(* newline that is the string's last character.                            *)

RECURSIVE RunEnd(_, _)
\* the position just past the longest run of [a-z0-9] starting at p
RunEnd(s, p) ==
    IF p <= Len(s) /\ s[p] \in LowerAlnum THEN RunEnd(s, p + 1) ELSE p

\* [a-z0-9]+ at p: the position after it, 0 when it does not match
Token(s, p) ==
    IF p = 0 THEN 0 ELSE LET e == RunEnd(s, p) IN IF e > p THEN e ELSE 0

\* "-" at p: the position after it, 0 when it does not match
Hyphen(s, p) ==
    IF p # 0 /\ p <= Len(s) /\ s[p] = "-" THEN p + 1 ELSE 0

\* "$" at p
AtDollar(s, p) ==
    \/ p = Len(s) + 1
    \/ (p = Len(s) /\ s[p] = "\n")

\* (?:\.exe)?$ at p
ExeDollar(s, p) ==
    \/ (StartsAt(s, p, DotExe) /\ AtDollar(s, p + Len(DotExe)))
    \/ AtDollar(s, p)

\* the old pattern of the source's comment: two tokens
get_platform_key_legacy(fname) ==
    IF ~StartsAt(fname, 1, Btxz) THEN None
    ELSE LET t1 == Token(fname, Len(Btxz) + 1)
             t2 == Token(fname, Hyphen(fname, t1))
         IN  IF t2 # 0 /\ ExeDollar(fname, t2)
             THEN SubSeq(fname, Len(Btxz) + 1, t2 - 1)
             ELSE None

get_platform_key(fname) ==
    IF ~StartsAt(fname, 1, Btxz) THEN None
    ELSE LET t1 == Token(fname, Len(Btxz) + 1)
             t2 == Token(fname, Hyphen(fname, t1))
             t3 == Token(fname, Hyphen(fname, t2))
         IN  IF t3 # 0 /\ ExeDollar(fname, t3)
             THEN SubSeq(fname, Len(Btxz) + 1, t3 - 1)
             ELSE None

\* the test of the "Skip non-binary files" branch
IsUtility(fname) ==
    \/ EndsWith(fname, DotTxt)
    \/ EndsWith(fname, DotSh)
    \/ EndsWith(fname, DotPs1)
    \/ fname = VersionJson

----------------------------------------------------------------------------
(* Python dicts, as item sequences in insertion order *)

DictHas(d, k) == \E n \in DOMAIN d : d[n][1] = k
DictIndex(d, k) == CHOOSE n \in DOMAIN d : d[n][1] = k
DictGet(d, k) == d[DictIndex(d, k)][2]
DictKeys(d) == {d[n][1] : n \in DOMAIN d}

\* a list-like store that adds an item on every assignment
DictSetAppending(d, k, v) == Append(d, <<k, v>>)

\* dict.setdefault: an existing item is kept
DictSetKeeping(d, k, v) ==
    IF DictHas(d, k) THEN d ELSE Append(d, <<k, v>>)

\* d[k] = v: replaces the value in place, or adds the item at the end
DictSet(d, k, v) ==
    IF DictHas(d, k)
    THEN [d EXCEPT ![DictIndex(d, k)] = <<k, v>>]
    ELSE Append(d, <<k, v>>)

\* the store used for manifest['platforms'][key] = {...}
Upsert(d, k, v) == DictSet(d, k, v)

(* JSON values of the manifest: a string, null, or an object *)
Str(x) == [t |-> "str", s |-> x, d |-> <<>>]
Null == [t |-> "null", s |-> "", d |-> <<>>]
Obj(members) == [t |-> "dict", s |-> "", d |-> members]

RECURSIVE FromMembers(_)
\* the dict json builds from an object's members: a repeated name keeps its
\* first position and takes its last value
FromMembers(ms) ==
    IF ms = <<>> THEN <<>>
    ELSE LET m == ms[Len(ms)]
         IN  DictSet(FromMembers(SubSeq(ms, 1, Len(ms) - 1)), m[1], m[2])

\* json.load of an object text whose values are strings, null or objects
json_load(doc) ==
    LET top == FromMembers(doc)
    IN  [n \in DOMAIN top |->
            IF top[n][2].t = "dict"
            THEN <<top[n][1], Obj(FromMembers(top[n][2].d))>>
            ELSE top[n]]

\* json.dump(manifest, f, indent=4) and the newline: the items in dict order
json_dump(m) == [kind |-> "json", doc |-> m]

\* hashlib.sha256 over the file's bytes, as lowercase hex
Sha256(content) ==
    CASE content = "bytes1" -> "d1a0"
      [] content = "bytes2" -> "d2b7"

Url(n) == "http://x/" \o ToString(n)

----------------------------------------------------------------------------
(* The inputs explored *)

Abc == <<"a","-","b","-","c">>
NameAbc == Btxz \o Abc
NameAbcExe == Btxz \o Abc \o DotExe
NameXyz == Btxz \o <<"x","1","-","y","0","-","z","9">>
NameTwoTokens == Btxz \o <<"a","-","b">>
NameFourTokens == Btxz \o Abc \o <<"-","d">>
NameUpper == Btxz \o <<"A","-","b","-","c">>
NameEmptyToken == Btxz \o <<"a","-","-","c">>
NameExtraPrefix == <<"x">> \o Btxz \o Abc
NameAfterExe == Btxz \o Abc \o DotExe \o <<".","s","i","g">>
NameNewline == Btxz \o Abc \o <<"\n">>
NameSums == <<"s","u","m","s">> \o DotTxt
NameAbcTxt == Btxz \o Abc \o DotTxt
NameInstallSh == <<"i","n","s","t","a","l","l">> \o DotSh
NameInstallPs1 == <<"i","n","s","t","a","l","l">> \o DotPs1

Names ==
    {NameAbc, NameAbcExe, NameXyz, NameTwoTokens, NameFourTokens, NameUpper,
     NameEmptyToken, NameExtraPrefix, NameAfterExe, NameNewline, NameSums,
     NameAbcTxt, NameInstallSh, NameInstallPs1, VersionJson}

\* what the artifacts directory holds under a name; "unknown" until the run
\* first looks, and the same ever after
FsKinds == {"absent", "dir", "bytes1", "bytes2"}

\* an asset object: the fields it has, and the values of the two that are read
Asset(fields, name, url) == [fields |-> fields, name |-> name, url |-> url]
FullFields == {"name", "browser_download_url", "size"}

\* the objects that can stand at position n of the array; the download URL
\* names the position
AssetsAt(n) ==
    {Asset(FullFields, nm, Url(n)) : nm \in Names}
    \cup {Asset({"browser_download_url"}, None, Url(n)),
          Asset({"name"}, NameAbc, ""),
          Asset({"name"}, NameSums, "")}

AssetLists ==
    UNION {{s \in [1..n -> UNION {AssetsAt(m) : m \in 1..n}] :
               \A m \in 1..n : s[m] \in AssetsAt(m)} : n \in 0..MaxAssets}

NoAssets == [kind |-> "absent", items |-> <<>>]
AssetsArgs ==
    {[kind |-> "invalid", items |-> <<>>],   \* not JSON: JSONDecodeError
     [kind |-> "scalar", items |-> <<>>]}    \* JSON, but a number or null
    \cup {[kind |-> "array", items |-> l] : l \in AssetLists}

Entry(url, sha) == [url |-> url, sha256 |-> sha]
KeyAbc == Abc
KeyXyz == <<"x","1","-","y","0","-","z","9">>

ManifestFiles ==
    {[kind |-> "missing", doc |-> <<>>],
     [kind |-> "invalid", doc |-> <<>>],
     [kind |-> "json", doc |-> << <<"version", Str("1.2.0")>> >>],
     [kind |-> "json", doc |->
        << <<"version", Str("1.2.0")>>,
           <<"platforms", Obj(<< <<KeyAbc, Entry("http://old/a", "0ld1")>> >>)>> >>],
     [kind |-> "json", doc |->
        << <<"platforms", Obj(<< <<KeyXyz, Entry("http://old/x", "")>>,
                                 <<KeyAbc, Entry("http://old/a", "0ld1")>> >>)>>,
           <<"version", Str("1.2.0")>>,
           <<"channel", Str("stable")>> >>],
     \* a text that repeats a member name, at both levels
     [kind |-> "json", doc |->
        << <<"channel", Str("beta")>>,
           <<"platforms", Obj(<< <<KeyAbc, Entry("http://old/a", "")>>,
                                 <<KeyXyz, Entry("http://old/x", "0ld2")>>,
                                 <<KeyAbc, Entry("http://old/b", "0ld3")>> >>)>>,
           <<"channel", Str("stable")>> >>],
     [kind |-> "json", doc |->
        << <<"version", Str("1.2.0")>>, <<"platforms", Null>> >>]}

----------------------------------------------------------------------------
(* main *)

Init ==
    /\ argc \in 1..4
    /\ assets_json_str \in (IF argc >= 3 THEN AssetsArgs ELSE {NoAssets})
    /\ file \in ManifestFiles
    /\ fs = [n \in Names |-> "unknown"]
    /\ pc = "start"
    /\ run = 1
    /\ assets = NoAssets
    /\ manifest = <<>>
    /\ i = 0
    /\ filename = None
    /\ key = None
    /\ count = 0
    /\ stdout = <<>>
    /\ summary = -1
    /\ exitCode = -1
    /\ exc = ""
    /\ reads = 0
    /\ writes = 0
    /\ file0 = file
    /\ loaded = <<>>
    /\ setBy = <<>>

\* an uncaught exception: traceback on stderr, exit status 1
Raise(e) ==
    /\ pc' = "exited"
    /\ exitCode' = 1
    /\ exc' = e

\* sys.exit(1)
SysExit1 ==
    /\ pc' = "exited"
    /\ exitCode' = 1
    /\ exc' = ""

\* lines 23-29: the argument check and the three reads of sys.argv
CheckArgs ==
    /\ pc = "start"
    /\ IF argc < 3
       THEN /\ stdout' = Append(stdout, "usage")
            /\ SysExit1
       ELSE IF argc < 4
       THEN /\ Raise("IndexError")      \* sys.argv[3]
            /\ UNCHANGED stdout
       ELSE /\ pc' = "parse"
            /\ UNCHANGED <<stdout, exitCode, exc>>
    /\ UNCHANGED <<argc, assets_json_str, file, fs, run, assets, manifest, i,
                   filename, key, count, summary, reads, writes, file0,
                   loaded, setBy>>

\* json.loads that lets a malformed string through as an empty list
ParseAssetsLenient ==
    /\ pc = "parse"
    /\ assets' = IF assets_json_str.kind = "invalid"
                 THEN [kind |-> "array", items |-> <<>>]
                 ELSE assets_json_str
    /\ pc' = "load"
    /\ UNCHANGED <<argc, assets_json_str, file, fs, run, manifest, i,
                   filename, key, count, stdout, summary, exitCode, exc,
                   reads, writes, file0, loaded, setBy>>

\* lines 31-35: json.loads and its except clause
ParseAssets ==
    /\ pc = "parse"
    /\ IF assets_json_str.kind = "invalid"
       THEN /\ stdout' = Append(stdout, "decode_error")
            /\ SysExit1
            /\ UNCHANGED assets
       ELSE /\ assets' = assets_json_str
            /\ pc' = "load"
            /\ UNCHANGED <<stdout, exitCode, exc>>
    /\ UNCHANGED <<argc, assets_json_str, file, fs, run, manifest, i,
                   filename, key, count, summary, reads, writes, file0,
                   loaded, setBy>>

\* a default that replaces whatever platforms held
EnsurePlatformsReset(m) == DictSet(m, "platforms", Obj(<<>>))

\* lines 40-41
EnsurePlatforms(m) ==
    IF ~DictHas(m, "platforms") THEN DictSet(m, "platforms", Obj(<<>>)) ELSE m

\* lines 37-45: open and json.load, the platforms default, the version line
LoadManifest ==
    /\ pc = "load"
    /\ IF file.kind = "missing"
       THEN /\ Raise("FileNotFoundError")
            /\ UNCHANGED <<manifest, loaded, stdout, i, reads>>
       ELSE IF file.kind = "invalid"
       THEN /\ Raise("JSONDecodeError")
            /\ reads' = reads + 1
            /\ UNCHANGED <<manifest, loaded, stdout, i>>
       ELSE /\ reads' = reads + 1
            /\ loaded' = json_load(file.doc)
            /\ manifest' = EnsurePlatforms(json_load(file.doc))
            /\ stdout' = Append(stdout, "updating")
            /\ i' = 1
            /\ pc' = "loop"
            /\ UNCHANGED <<exitCode, exc>>
    /\ UNCHANGED <<argc, assets_json_str, file, fs, run, assets, filename,
                   key, count, summary, writes, file0, setBy>>

\* line 46 when assets is JSON but no array: "for asset in assets" raises
LoopNotIterable ==
    /\ pc = "loop"
    /\ assets.kind = "scalar"
    /\ Raise("TypeError")
    /\ UNCHANGED <<argc, assets_json_str, file, fs, run, assets, manifest, i,
                   filename, key, count, stdout, summary, reads, writes,
                   file0, loaded, setBy>>

\* lines 46-72: one iteration of the loop, apart from the manifest file
LoopStep ==
    /\ pc = "loop"
    /\ assets.kind = "array"
    /\ i <= Len(assets.items)
    /\ LET asset == assets.items[i]
           k == get_platform_key(asset.name)
           platforms == DictGet(manifest, "platforms")
       IN
       IF "name" \notin asset.fields \/ "browser_download_url" \notin asset.fields
       THEN /\ Raise("KeyError")
            /\ UNCHANGED <<fs, manifest, i, filename, key, count, stdout, setBy>>
       ELSE IF IsUtility(asset.name)
       THEN /\ filename' = asset.name
            /\ stdout' = Append(stdout, "skip_utility")
            /\ setBy' = Append(setBy, None)
            /\ i' = i + 1
            /\ UNCHANGED <<fs, manifest, key, count, pc, exitCode, exc>>
       ELSE IF k = None
       THEN /\ filename' = asset.name
            /\ key' = k
            /\ stdout' = Append(stdout, "skip_regex")
            /\ setBy' = Append(setBy, None)
            /\ i' = i + 1
            /\ UNCHANGED <<fs, manifest, count, pc, exitCode, exc>>
       ELSE \E st \in (IF fs[asset.name] = "unknown" THEN FsKinds
                       ELSE {fs[asset.name]}) :
            /\ fs' = [fs EXCEPT ![asset.name] = st]
            /\ filename' = asset.name
            /\ key' = k
            /\ IF st = "dir"           \* exists, but open() raises
               THEN /\ Raise("IsADirectoryError")
                    /\ UNCHANGED <<manifest, i, count, stdout, setBy>>
               ELSE LET checksum == IF st = "absent" THEN "" ELSE Sha256(st)
                    IN
                    /\ count' = IF st = "absent" THEN count ELSE count + 1
                    /\ stdout' = Append(stdout, IF st = "absent" THEN "warning"
                                                ELSE "processed")
                    /\ IF platforms.t # "dict"     \* item assignment fails
                       THEN /\ Raise("TypeError")
                            /\ UNCHANGED <<manifest, i, setBy>>
                       ELSE /\ manifest' =
                                 DictSet(manifest, "platforms",
                                     Obj(Upsert(platforms.d, k,
                                                Entry(asset.url, checksum))))
                            /\ setBy' = Append(setBy, k)
                            /\ i' = i + 1
                            /\ UNCHANGED <<pc, exitCode, exc>>
    /\ UNCHANGED <<argc, assets_json_str, run, assets, summary, reads,
                   file0, loaded>>

\* an iteration that also saves the manifest as it goes
ProcessAssetSaving ==
    /\ LoopStep
    /\ file' = IF i' > i THEN json_dump(manifest') ELSE file
    /\ writes' = IF writes = 0 /\ i' > i THEN 1 ELSE writes

ProcessAsset ==
    /\ LoopStep
    /\ UNCHANGED <<file, writes>>

\* lines 74-78: the dump, the summary line, and the end of main
WriteManifest ==
    /\ pc = "loop"
    /\ assets.kind = "array"
    /\ i > Len(assets.items)
    /\ file' = json_dump(manifest)
    /\ writes' = writes + 1
    /\ stdout' = Append(stdout, "summary")
    /\ summary' = count
    /\ pc' = "exited"
    /\ exitCode' = 0
    /\ UNCHANGED <<argc, assets_json_str, fs, run, assets, manifest, i,
                   filename, key, count, exc, reads, file0, loaded, setBy>>

\* the same command line run again, over what the first run left
Rerun ==
    /\ pc = "exited"
    /\ exitCode = 0
    /\ run = 1
    /\ run' = 2
    /\ pc' = "start"
    /\ assets' = NoAssets
    /\ manifest' = <<>>
    /\ i' = 0
    /\ filename' = None
    /\ key' = None
    /\ count' = 0
    /\ stdout' = <<>>
    /\ summary' = -1
    /\ exitCode' = -1
    /\ exc' = ""
    /\ reads' = 0
    /\ writes' = 0
    /\ file0' = file
    /\ loaded' = <<>>
    /\ setBy' = <<>>
    /\ UNCHANGED <<argc, assets_json_str, file, fs>>

Next ==
    \/ CheckArgs
    \/ ParseAssets
    \/ LoadManifest
    \/ LoopNotIterable
    \/ ProcessAsset
    \/ WriteManifest
    \/ Rerun

Spec == Init /\ [][Next]_vars

----------------------------------------------------------------------------
(* get_platform_key on its own: every filename built from an optional      *)
(* extra prefix, btxz-, two to four tokens joined by hyphens, and a tail   *)

RECURSIVE Join(_)
Join(toks) ==
    IF Len(toks) = 1 THEN toks[1]
    ELSE Join(SubSeq(toks, 1, Len(toks) - 1)) \o <<"-">> \o toks[Len(toks)]

GenPrefixes == {<<>>, <<"x">>}
GenTokens == {<<"a">>, <<"z","9">>, <<"0">>, <<"A">>}
GenTails ==
    {<<>>, DotExe, <<"\n">>, DotExe \o <<"\n">>, DotTxt,
     <<".","E","X","E">>, DotExe \o DotExe}
GenNames ==
    {pre \o Btxz \o Join(toks) \o tail :
        pre \in GenPrefixes,
        toks \in UNION {[1..n -> GenTokens] : n \in 2..4},
        tail \in GenTails}

InitKey ==
    /\ argc = 1
    /\ assets_json_str = NoAssets
    /\ file = [kind |-> "missing", doc |-> <<>>]
    /\ fs = [n \in Names |-> "unknown"]
    /\ pc = "classify"
    /\ run = 1
    /\ assets = NoAssets
    /\ manifest = <<>>
    /\ i = 0
    /\ filename \in GenNames
    /\ key = None
    /\ count = 0
    /\ stdout = <<>>
    /\ summary = -1
    /\ exitCode = -1
    /\ exc = ""
    /\ reads = 0
    /\ writes = 0
    /\ file0 = file
    /\ loaded = <<>>
    /\ setBy = <<>>

\* line 55: key = get_platform_key(filename)
Classify ==
    /\ pc = "classify"
    /\ key' = get_platform_key(filename)
    /\ pc' = "classified"
    /\ UNCHANGED <<argc, assets_json_str, file, fs, run, assets, manifest, i,
                   filename, count, stdout, summary, exitCode, exc, reads,
                   writes, file0, loaded, setBy>>

NextKey == Classify

SpecKey == InitKey /\ [][NextKey]_vars

----------------------------------------------------------------------------
(* What the naming convention says, stated without the regular expression *)

\* s without a final ".exe"
Stem(s) == IF EndsWith(s, DotExe) THEN SubSeq(s, 1, Len(s) - Len(DotExe)) ELSE s

\* s without its first five characters and without a final ".exe"
Body(s) == SubSeq(Stem(s), Len(Btxz) + 1, Len(Stem(s)))

\* b is three non-empty runs of [a-z0-9] separated by single hyphens
ThreeTokens(b) ==
    /\ Len(b) > 0
    /\ \A n \in DOMAIN b : b[n] \in LowerAlnum \cup {"-"}
    /\ Cardinality({n \in DOMAIN b : b[n] = "-"}) = 2
    /\ b[1] # "-"
    /\ b[Len(b)] # "-"
    /\ \A n \in 1..(Len(b) - 1) : ~(b[n] = "-" /\ b[n + 1] = "-")

\* s is btxz-<os>-<arch>-<variant>, optionally followed by .exe, and nothing more
ExactForm(s) == StartsAt(s, 1, Btxz) /\ ThreeTokens(Body(s))

Done == pc = "exited"
Completed == pc = "exited" /\ exitCode = 0

\* the platforms object of a manifest dict
PlatformsOf(m) == DictGet(m, "platforms").d

\* the key asset number j of the array is classified to, None when skipped
ClassOf(j) ==
    IF IsUtility(assets.items[j].name) THEN None
    ELSE get_platform_key(assets.items[j].name)

\* the keys this run has set
Touched == {setBy[j] : j \in DOMAIN setBy} \ {None}

----------------------------------------------------------------------------
(* Claims *)

\* C1: a run given fewer than 3 arguments after the script name prints the
\* usage message, exits 1 and neither reads nor writes the manifest nor
\* processes an asset.
C1_FewArgsUsageError ==
    (Done /\ argc < 4) =>
        /\ exc = ""
        /\ exitCode = 1
        /\ stdout = <<"usage">>
        /\ reads = 0 /\ writes = 0 /\ file = file0
        /\ setBy = <<>>

\* C2: with 3 arguments and an assets string that is not JSON, the run goes
\* no further than the decode: it reports the error and exits 1, the manifest
\* file is never opened and keeps its contents, and no asset is classified
\* or hashed.
C2_DecodeErrorBeforeAnyWork ==
    (argc = 4 /\ assets_json_str.kind = "invalid") =>
        /\ pc \in {"start", "parse", "exited"}
        /\ reads = 0 /\ writes = 0 /\ file = file0
        /\ setBy = <<>> /\ count = 0 /\ key = None
        /\ \A n \in Names : fs[n] = "unknown"
        /\ Done => (exitCode = 1 /\ exc = "" /\ stdout = <<"decode_error">>)

C2_Witness ==
    /\ argc = 4 /\ assets_json_str.kind = "invalid"
    /\ Done /\ exitCode = 1
    /\ file.kind = "json"

\* C3: for a filename that is exactly btxz-<os>-<arch>-<variant> with an
\* optional .exe, get_platform_key returns <os>-<arch>-<variant>: the name
\* without the prefix and without the .exe.
C3_KeyOfExactName ==
    (pc = "classified" /\ ExactForm(filename)) => key = Body(filename)

C3_Witness ==
    /\ pc = "classified"
    /\ ExactForm(filename)
    /\ EndsWith(filename, DotExe)
    /\ key = <<"z","9","-","a","-","0">>

\* C4: an asset whose name is a utility file, or is not exactly of the form
\* btxz-<token>-<token>-<token>[.exe] to the end of the string, sets no
\* entry of platforms.
C4_InexactNameSetsNoEntry ==
    \A j \in DOMAIN setBy :
        (IsUtility(assets.items[j].name) \/ ~ExactForm(assets.items[j].name))
            => setBy[j] = None

\* C5: after a completed run, each key some asset classifies to holds the
\* URL of the last such asset and the digest of that asset's local file, or
\* the empty string when the file is absent, whatever the key held before.
C5_LastAssetWins ==
    Completed =>
        \A j \in DOMAIN assets.items :
            LET K == ClassOf(j)
                last == CHOOSE m \in DOMAIN assets.items :
                            /\ ClassOf(m) = K
                            /\ \A n \in DOMAIN assets.items :
                                   ClassOf(n) = K => n <= m
                a == assets.items[last]
                p == PlatformsOf(file.doc)
            IN  K # None =>
                    /\ Cardinality({n \in DOMAIN p : p[n][1] = K}) = 1
                    /\ DictGet(p, K) =
                         Entry(a.url, IF fs[a.name] \in {"bytes1", "bytes2"}
                                      THEN Sha256(fs[a.name]) ELSE "")

C5_Witness ==
    /\ Completed
    /\ Len(setBy) = 2
    /\ setBy[1] = KeyAbc /\ setBy[2] = KeyAbc
    /\ DictHas(loaded, "platforms")
    /\ DictHas(PlatformsOf(loaded), KeyAbc)
    /\ DictGet(PlatformsOf(loaded), KeyAbc).sha256 # ""
    /\ fs[assets.items[1].name] = "bytes1"
    /\ fs[assets.items[2].name] = "absent"
    /\ DictGet(PlatformsOf(file.doc), KeyAbc) = Entry(Url(2), "")

\* C6: the same command line run a second time, over unchanged artifacts,
\* completes and leaves the manifest file exactly as the first run wrote it,
\* each platform key occurring once.
C6_SecondRunIdentical ==
    (run = 2 /\ Done) =>
        /\ exitCode = 0
        /\ file = file0
        /\ LET p == PlatformsOf(file.doc)
           IN  \A m, n \in DOMAIN p : p[m][1] = p[n][1] => m = n

C6_Witness ==
    /\ run = 2 /\ Completed
    /\ Len(setBy) = 2
    /\ setBy[1] # None /\ setBy[2] # None /\ setBy[1] # setBy[2]
    /\ fs[assets.items[1].name] = "bytes2"

\* C7: a completed run writes every top-level field other than platforms
\* as it was loaded, adds no field but platforms, and leaves every platforms
\* entry whose key no asset of the run classified to as it was.
C7_Frame ==
    Completed =>
        LET w == file.doc
        IN  /\ DictKeys(w) = DictKeys(loaded) \cup {"platforms"}
            /\ \A f \in DictKeys(loaded) \ {"platforms"} :
                   DictGet(w, f) = DictGet(loaded, f)
            /\ (DictHas(loaded, "platforms") /\ Touched = {}) =>
                   DictGet(w, "platforms") = DictGet(loaded, "platforms")
            /\ DictHas(loaded, "platforms") =>
                   \A K \in DictKeys(PlatformsOf(loaded)) \ Touched :
                       /\ DictHas(PlatformsOf(w), K)
                       /\ DictGet(PlatformsOf(w), K) = DictGet(PlatformsOf(loaded), K)

C7_Witness ==
    /\ Completed
    /\ DictHas(loaded, "channel")
    /\ DictHas(loaded, "platforms")
    /\ KeyXyz \in DictKeys(PlatformsOf(loaded))
    /\ Touched = {KeyAbc}
    /\ DictGet(PlatformsOf(file.doc), KeyAbc) # DictGet(PlatformsOf(loaded), KeyAbc)

\* C8: the number in the final summary is the number of platform keys set
\* during the run whose entry ends with a non-empty sha256.
C8_SummaryCountsHashedEntries ==
    Completed =>
        summary = Cardinality({K \in Touched :
                                  DictGet(PlatformsOf(file.doc), K).sha256 # ""})

\* C9: a run ends by completing with exit 0 or by one of the two fatal input
\* errors; given enough arguments, a readable manifest with a platforms
\* object or none, and an assets array, nothing about an asset aborts it.
C9_NoAssetAbortsTheRun ==
    (/\ Done
     /\ argc = 4
     /\ assets_json_str.kind = "array"
     /\ file0.kind = "json"
     /\ (DictHas(loaded, "platforms") => DictGet(loaded, "platforms").t = "dict"))
        => (exc = "" /\ exitCode = 0 /\ writes = 1)

\* C10: in a run the manifest file is read at most once and written at most
\* once, it has been read before any asset is processed, it is written only
\* once every asset has been processed, and until it is written it holds
\* what it held when the run started.
C10_ReadOnceWriteOnceAtTheEnd ==
    /\ reads <= 1
    /\ writes <= 1
    /\ (pc = "loop" \/ setBy # <<>>) => reads = 1
    /\ writes = 1 => (Completed /\ Len(setBy) = Len(assets.items))
    /\ writes = 0 => file = file0

C10_Witness ==
    /\ Done /\ exc = "KeyError"
    /\ Len(setBy) = 1 /\ setBy[1] # None
    /\ ~DictHas(loaded, "platforms")
    /\ DictHas(PlatformsOf(manifest), setBy[1])
    /\ reads = 1 /\ writes = 0 /\ file = file0

====
